---- MODULE Spec2Model ----
(***************************************************************************)
(* Model of shellkick's agent exploration engine (src/src/main.rs):        *)
(* the Fitness order, fitness(), next_input(), next_frame() and revert().  *)
(*                                                                         *)
(* One Mario is modelled as the record `mario`, with the fields of the     *)
(* Rust struct.  The emulator (the fastnes crate) is not part of the       *)
(* repository; it is modelled as a deterministic simulator whose state is  *)
(* the sequence of inputs it has been stepped with (so that two states are *)
(* equal only if they were reached by the same inputs) and the cell of a   *)
(* small level layout `world`, fixed at start, that those inputs lead to.  *)
(* The bytes fitness() reads are a function of that state.                 *)
(*                                                                         *)
(* A panic (an unwrap() on None) ends the worker thread: it is recorded in *)
(* `panicked` and no further tick happens.                                 *)
(***************************************************************************)
EXTENDS Integers, Sequences, FiniteSets, TLC

VARIABLES
    mario,      \* the Mario struct (main.rs 59-69)
    world,      \* the level the simulator runs: cells and time limit
    panicked,   \* "none", or the unwrap() that killed the thread
    obs,        \* history variable: what the last tick did
    probe,      \* operands and results of the pure-function specifications
    scores,     \* the published values, one slot per Mario (main.rs 303, 355)
    pool,       \* the population, its partition and the worker threads
    locks       \* the three mutexes and where each thread stands on them

vars == <<mario, world, panicked, obs, probe, scores, pool, locks>>

----------------------------------------------------------------------------
(* Bounds of the exploration *)

MaxFrames == 6        \* frames after the first decision point at which a
                      \* further decision point is still explored
MaxDist == 4          \* largest Level distance compared in SpecOrd
ScriptLead == 1       \* zeros before START in the scripted queue (32 in main)
ScriptTail == 1       \* zeros after START in the scripted queue (135 in main)
MaxExtra == 1         \* extra zeros appended at spawn (0..19 in main)
LongFrames == 402     \* the same, for the long run of SpecLong
MaxAmount == 64       \* largest population partitioned (64 in main)
MaxCount == 12        \* largest number of workers (12 in main)
MaxTicked == 4        \* largest population whose workers are run
LockWorkers == 2      \* workers (one Mario each) followed lock by lock

(* The runs of next_input's while loop explored: each is the sequence of    *)
(* values rng.gen_range(0..6) returned while the loop went on.  0 flips A,  *)
(* 5 flips Right (after the shift over start/select).                       *)
RngRuns == {<<>>, <<0>>, <<5>>}

----------------------------------------------------------------------------
(* Sequence helpers (Vec / VecDeque operations) *)

Last(s) == s[Len(s)]

Max(a, b) == IF a >= b THEN a ELSE b

Min(a, b) == IF a <= b THEN a ELSE b

\* n times Vec::pop(), each a no-op on an empty vector
PopN(s, n) == SubSeq(s, 1, Max(Len(s) - n, 0))

\* Option<u32>
None == <<>>

Some(n) == <<n>>

----------------------------------------------------------------------------
(* enum Fitness and its two comparisons *)

Dying(t) == [tag |-> "Dying", terminal |-> t, d |-> 0]

Cutscene == [tag |-> "Cutscene", terminal |-> FALSE, d |-> 0]

Level(n) == [tag |-> "Level", terminal |-> FALSE, d |-> n]

\* #[derive(PartialEq)]: same variant and equal payload
FitnessEq(a, b) ==
    /\ a.tag = b.tag
    /\ a.tag = "Dying" => a.terminal = b.terminal
    /\ a.tag = "Level" => a.d = b.d

\* a variant of partial_cmp with Cutscene below every Level
partial_cmp_cutscene_low(a, b) ==
    CASE a.tag = "Dying" /\ b.tag = "Dying" -> "Equal"
      [] a.tag = "Dying" /\ b.tag # "Dying" -> "Less"
      [] a.tag # "Dying" /\ b.tag = "Dying" -> "Greater"
      [] a.tag = "Cutscene" /\ b.tag = "Cutscene" -> "Equal"
      [] a.tag = "Cutscene" /\ b.tag = "Level" -> "Less"
      [] a.tag = "Level" /\ b.tag = "Cutscene" -> "Greater"
      [] a.tag = "Level" /\ b.tag = "Level" ->
            IF a.d < b.d THEN "Less" ELSE IF a.d = b.d THEN "Equal" ELSE "Greater"

\* a variant of partial_cmp that orders Dying(false) below Dying(true), as a
\* derived PartialOrd would
partial_cmp_derived(a, b) ==
    CASE a.tag = "Dying" /\ b.tag = "Dying" ->
            IF a.terminal = b.terminal THEN "Equal"
            ELSE IF b.terminal THEN "Less" ELSE "Greater"
      [] a.tag = "Dying" /\ b.tag # "Dying" -> "Less"
      [] a.tag # "Dying" /\ b.tag = "Dying" -> "Greater"
      [] a.tag = "Cutscene" /\ b.tag = "Cutscene" -> "Equal"
      [] a.tag = "Cutscene" /\ b.tag = "Level" -> "Greater"
      [] a.tag = "Level" /\ b.tag = "Cutscene" -> "Less"
      [] a.tag = "Level" /\ b.tag = "Level" ->
            IF a.d < b.d THEN "Less" ELSE IF a.d = b.d THEN "Equal" ELSE "Greater"

\* impl PartialOrd for Fitness: the nine arms of the match
partial_cmp(a, b) ==
    CASE a.tag = "Dying" /\ b.tag = "Dying" -> "Equal"
      [] a.tag = "Dying" /\ b.tag = "Cutscene" -> "Less"
      [] a.tag = "Dying" /\ b.tag = "Level" -> "Less"
      [] a.tag = "Cutscene" /\ b.tag = "Dying" -> "Greater"
      [] a.tag = "Cutscene" /\ b.tag = "Cutscene" -> "Equal"
      [] a.tag = "Cutscene" /\ b.tag = "Level" -> "Greater"
      [] a.tag = "Level" /\ b.tag = "Dying" -> "Greater"
      [] a.tag = "Level" /\ b.tag = "Cutscene" -> "Less"
      [] a.tag = "Level" /\ b.tag = "Level" ->
            IF a.d < b.d THEN "Less" ELSE IF a.d = b.d THEN "Equal" ELSE "Greater"

\* the provided methods of PartialOrd, all through partial_cmp
lt(a, b) == partial_cmp(a, b) = "Less"

le(a, b) == partial_cmp(a, b) \in {"Less", "Equal"}

gt(a, b) == partial_cmp(a, b) = "Greater"

ge(a, b) == partial_cmp(a, b) \in {"Greater", "Equal"}

----------------------------------------------------------------------------
(* fitness(): the classification of the bytes read from the simulator *)

\* a variant of fitness() that tests the loss conditions before the transition
fitness_dying_first(ram) ==
    LET level_pos == ram.page * 256 + ram.x
        mario_position == ram.world * 16777216 + ram.level * 65536 + level_pos
        engine == ram.engine
        task == ram.task
        mode == ram.mode
        mario_y == ram.y_hi * 256 + ram.y_lo
        cutscene == engine <= 5 \/ engine = 7 \/ mode = 2 \/ (mode = 1 /\ task # 3)
        dying == mario_y > 456 \/ engine = 6 \/ engine = 11 \/ mode = 0 \/ mode = 3
        time == ram.t100 * 100 + ram.t10 * 10 + ram.t1
        out_of_time == time = 0
    IN  IF dying \/ out_of_time THEN Dying(out_of_time)
        ELSE IF cutscene THEN Cutscene
        ELSE Level(mario_position)

\* fitness() (lines 108-138)
fitness(ram) ==
    LET level_pos == ram.page * 256 + ram.x
        mario_position == ram.world * 16777216 + ram.level * 65536 + level_pos
        engine == ram.engine
        task == ram.task
        mode == ram.mode
        mario_y == ram.y_hi * 256 + ram.y_lo
        cutscene == engine <= 5 \/ engine = 7 \/ mode = 2 \/ (mode = 1 /\ task # 3)
        dying == (mario_y > 456 \/ engine = 6 \/ engine = 11 \/ mode = 0 \/ mode = 3)
                    /\ ~cutscene
        time == ram.t100 * 100 + ram.t10 * 10 + ram.t1
        out_of_time == time = 0 /\ ~cutscene
    IN  IF dying \/ out_of_time THEN Dying(out_of_time)
        ELSE IF cutscene THEN Cutscene
        ELSE Level(mario_position)

\* a variant of scroll() that reads the player's position, as fitness() does
scroll_player(ram) ==
    ram.world * 16777216 + ram.level * 65536 + (ram.page * 256 + ram.x)

\* scroll(): the screen's position in the level (lines 140-149)
scroll(ram) ==
    LET level_pos == ram.scroll_page * 256 + ram.scroll_x
        mario_position == ram.world * 16777216 + ram.level * 65536 + level_pos
    IN  mario_position

----------------------------------------------------------------------------
(* The simulator: the inputs applied so far and the cell they lead to *)

BitSet(v, b) == (v \div b) % 2 = 1

\* NES::read_ines: the power-on state
PowerOn == [inputs |-> <<>>, x |-> 1, cam |-> 0]

\* the cell the player stands on after a frame with the controller holding
\* `item`: Right (128) and Left (64) move one cell, within the level
SimMove(w, nes, item) ==
    IF BitSet(item, 128) THEN Min(nes.x + 1, Len(w.cells))
    ELSE IF BitSet(item, 64) THEN Max(nes.x - 1, 1)
    ELSE nes.x

\* NES::next_frame: the player moves, and the screen's left edge follows one
\* cell behind the player and never scrolls back
SimStep(w, nes, item) ==
    [inputs |-> Append(nes.inputs, item),
     x |-> SimMove(w, nes, item),
     cam |-> Max(nes.cam, SimMove(w, nes, item) - 2)]

\* NES::read of the addresses fitness() and scroll() inspect
SimRam(w, nes) ==
    LET cell == w.cells[nes.x]
        rem == Max(w.time_limit - Len(nes.inputs), 0)
    IN  [ page |-> 0, x |-> nes.x - 1, world |-> 0, level |-> 0,
          scroll_page |-> 0, scroll_x |-> nes.cam,
          engine |-> IF cell = "pipe" THEN 7 ELSE 8,
          task |-> 3, mode |-> 1,
          y_hi |-> 1, y_lo |-> IF cell = "pit" THEN 220 ELSE 176,
          t100 |-> rem \div 100, t10 |-> (rem \div 10) % 10, t1 |-> rem % 10 ]

\* fitness(&mut nes): the bytes are read once, then classified
Evaluate(w, nes) == CHOOSE out \in { fitness(ram) : ram \in {SimRam(w, nes)} } : TRUE

----------------------------------------------------------------------------
(* next_input(): the candidate generator *)

\* a variant of the flip that does not skip start and select
FlipMask_no_skip(r) == 2 ^ r

\* flip = 1 << r; if flip > 0b11 { flip <<= 2 }
FlipMask(r) == LET flip == 2 ^ r IN IF flip > 3 THEN flip * 4 ELSE flip

\* next ^= flip, for a one-bit flip
Xor(v, flip) == IF BitSet(v, flip) THEN v - flip ELSE v + flip

RECURSIVE Flips(_, _)
\* next after the loop iterations of one run
Flips(v, run) ==
    IF run = <<>> THEN v
    ELSE Flips(Xor(v, FlipMask(Head(run))), Tail(run))

\* the results next_input(prev, personality) can return
next_input(prev) == { Flips(prev, run) : run \in RngRuns }

RECURSIVE Chains(_, _)
\* the lists built by n chained calls: last = next_input(last); push_back(last)
Chains(last, n) ==
    IF n = 0 THEN {<<>>}
    ELSE UNION { { <<v>> \o s : s \in Chains(v, n - 1) } : v \in next_input(last) }

\* candidate 0 (i == 0): the last input repeated, never mutated
Repeat(last, n) == [k \in 1..n |-> last]

\* the lists the loop over 0..smart can generate, in generation order
Candidates(last, p) ==
    IF p.smart = 0 THEN {<<>>}
    ELSE { <<Repeat(last, p.playful)>> \o rest :
             rest \in [1..(p.smart - 1) -> Chains(last, p.playful)] }

----------------------------------------------------------------------------
(* The rollout search of next_frame (lines 190-219) *)

RECURSIVE RunClone(_, _, _)
\* the clone stepped through the whole list
RunClone(w, nes, list) ==
    IF list = <<>> THEN nes
    ELSE RunClone(w, SimStep(w, nes, Head(list)), Tail(list))

\* a variant of the test that replaces only on a strictly greater score
ReplacesStrict(score, best_result) == gt(score, best_result)

\* a variant of the test that lets every candidate replace the best
ReplacesAlways(score, best_result) == TRUE

\* if score >= best_result
Replaces(score, best_result) == ge(score, best_result)

RECURSIVE SearchLoop(_, _, _, _, _, _)
\* iterations i..smart of the loop, from the current best_result and queue
SearchLoop(w, nes, cands, i, best_result, queue) ==
    IF i > Len(cands) THEN [best_result |-> best_result, inputs_future |-> queue]
    ELSE LET score == Evaluate(w, RunClone(w, nes, cands[i]))
         IN  IF Replaces(score, best_result)
             THEN SearchLoop(w, nes, cands, i + 1, score, cands[i])
             ELSE SearchLoop(w, nes, cands, i + 1, best_result, queue)

\* let mut best_result = Fitness::Dying(false); for i in 0..smart { ... }
Search(w, nes, cands, queue) == SearchLoop(w, nes, cands, 1, Dying(FALSE), queue)

\* a variant of lines 221-228 without the exemption of Cutscene
StuckCheck_no_exempt(m, best_result, score) ==
    IF le(best_result, score)
    THEN IF m.stuck_count + 1 >= m.personality.patient
         THEN [m EXCEPT !.stuck_count = 0,
                        !.being_random = Some(m.personality.random)]
         ELSE [m EXCEPT !.stuck_count = @ + 1]
    ELSE m

\* a variant of lines 221-228 that arms random mode without resetting the
\* stuck counter
StuckCheck_keep_count(m, best_result, score) ==
    IF le(best_result, score) /\ ~FitnessEq(best_result, Cutscene)
    THEN IF m.stuck_count + 1 >= m.personality.patient
         THEN [m EXCEPT !.stuck_count = @ + 1,
                        !.being_random = Some(m.personality.random)]
         ELSE [m EXCEPT !.stuck_count = @ + 1]
    ELSE m

\* test against current score (lines 221-228)
StuckCheck(m, best_result, score) ==
    IF le(best_result, score) /\ ~FitnessEq(best_result, Cutscene)
    THEN IF m.stuck_count + 1 >= m.personality.patient
         THEN [m EXCEPT !.stuck_count = 0,
                        !.being_random = Some(m.personality.random)]
         ELSE [m EXCEPT !.stuck_count = @ + 1]
    ELSE m

----------------------------------------------------------------------------
(* revert() (lines 246-265) *)

\* one iteration of either loop: pop a counter, a state and playful inputs
PopCheckpoints(m, n) ==
    [m EXCEPT !.revert_stack = PopN(@, n),
              !.states = PopN(@, n),
              !.inputs_past = PopN(@, n * m.personality.playful)]

RECURSIVE RevertWhile_above_one(_)
\* a variant of the while loop that pops only the counters above 1
RevertWhile_above_one(m) ==
    IF m.revert_stack = <<>> THEN [panic |-> "revert_stack.last", m |-> m]
    ELSE IF Last(m.revert_stack) > 1
    THEN RevertWhile_above_one(PopCheckpoints(m, 1))
    ELSE [panic |-> "none", m |-> m]

RECURSIVE RevertWhile(_)
\* while *revert_stack.last().unwrap() >= 1 { pop }
RevertWhile(m) ==
    IF m.revert_stack = <<>> THEN [panic |-> "revert_stack.last", m |-> m]
    ELSE IF Last(m.revert_stack) >= 1 THEN RevertWhile(PopCheckpoints(m, 1))
    ELSE [panic |-> "none", m |-> m]

\* a variant of revert without the while loop over nonzero counters
revert_no_skip(m, amount) ==
    LET m1 == PopCheckpoints(m, amount)
    IN  IF m1.revert_stack = <<>> THEN [panic |-> "revert_stack.last", m |-> m1]
        ELSE [panic |-> "none",
              m |-> [m1 EXCEPT !.revert_stack[Len(m1.revert_stack)] = @ + 1]]

revert(m, amount) ==
    LET r == RevertWhile(PopCheckpoints(m, amount))
    IN  IF r.panic # "none" THEN r
        ELSE [panic |-> "none",
              m |-> [r.m EXCEPT !.revert_stack[Len(r.m.revert_stack)] = @ + 1]]

\* a variant of lines 165-169 that asks for the short rewind in both cases
RevertAmount_short(score, p) == 2

\* the amount next_frame passes to revert (lines 165-169)
RevertAmount(score, p) ==
    IF FitnessEq(score, Dying(TRUE)) THEN (360 * 20) \div p.playful ELSE 2

----------------------------------------------------------------------------
(* next_frame() (lines 151-244), in the order of the code *)

\* a variant of the test of line 158 that takes every tick for a decision point
always_decides(m) == TRUE

\* if mario.inputs_future.is_empty() (line 158)
is_decision_point(m) == m.inputs_future = <<>>

NoRevert == [reverted |-> FALSE, amount |-> 0, rs_before |-> <<>>, landed |-> 0]

\* lines 152-174: take the frontier, score it and, at a decision point,
\* checkpoint it and revert if it is Dying
Begin(m, w) ==
    IF m.states = <<>>
    THEN [panic |-> "states.pop", m |-> m, nes |-> PowerOn, score |-> Dying(FALSE),
          rv |-> NoRevert]
    ELSE
    LET nes == Last(m.states)
        score == Evaluate(w, nes)
        m0 == [m EXCEPT !.states = PopN(@, 1)]
        m1 == [m0 EXCEPT !.states = Append(@, nes)]
        amount == RevertAmount(score, m.personality)
        r == revert(m1, amount)
        rv == [reverted |-> TRUE, amount |-> amount,
               rs_before |-> m1.revert_stack, landed |-> Len(r.m.revert_stack)]
    IN  IF ~is_decision_point(m)
        THEN [panic |-> "none", m |-> m0, nes |-> nes, score |-> score,
              rv |-> NoRevert]
        ELSE IF ~(FitnessEq(score, Dying(FALSE)) \/ FitnessEq(score, Dying(TRUE)))
        THEN [panic |-> "none", m |-> m1, nes |-> nes, score |-> score,
              rv |-> NoRevert]
        ELSE IF r.panic # "none"
        THEN [panic |-> r.panic, m |-> r.m, nes |-> nes, score |-> score,
              rv |-> [rv EXCEPT !.landed = 0]]
        ELSE IF r.m.states = <<>>
        THEN [panic |-> "states.pop", m |-> r.m, nes |-> nes, score |-> score,
              rv |-> rv]
        ELSE [panic |-> "none", m |-> [r.m EXCEPT !.states = PopN(@, 1)],
              nes |-> Last(r.m.states),
              score |-> Evaluate(w, Last(r.m.states)), rv |-> rv]

\* a variant of lines 234-243 that keeps the rollout's clone as the frontier:
\* the whole queue is applied to it
Finish_clone(m, w, nes) ==
    IF m.inputs_future = <<>>
    THEN [panic |-> "inputs_future.pop_front", m |-> m]
    ELSE LET item == Head(m.inputs_future)
         IN  [panic |-> "none",
              m |-> [m EXCEPT !.inputs_future = Tail(@),
                              !.inputs_past = Append(@, item),
                              !.states = Append(@, RunClone(w, nes, m.inputs_future))]]

\* lines 234-243: pop_front the next input, record it, step the frontier once
\* and push the frontier back
Finish(m, w, nes) ==
    IF m.inputs_future = <<>>
    THEN [panic |-> "inputs_future.pop_front", m |-> m]
    ELSE LET item == Head(m.inputs_future)
         IN  [panic |-> "none",
              m |-> [m EXCEPT !.inputs_future = Tail(@),
                              !.inputs_past = Append(@, item),
                              !.states = Append(@, SimStep(w, nes, item))]]

\* line 231
PushCounter(m) == [m EXCEPT !.revert_stack = Append(@, 0)]

\* a variant of lines 176-187 that never clears being_random
RandomInput_no_return(m, walk) ==
    [m EXCEPT !.being_random = Some(m.being_random[1] - 1),
              !.inputs_future = @ \o walk]

\* lines 176-187, given the list the calls of next_input produced
RandomInput(m, walk) ==
    LET num == m.being_random[1] - 1
    IN  [m EXCEPT !.being_random = IF num = 0 THEN None ELSE Some(num),
                  !.inputs_future = @ \o walk]

\* a variant of lines 189-229 in which the clone of line 204 shares the newest
\* checkpoint: stepping it through the winning list changes that checkpoint
RegularInput_aliased(m, w, nes, score, cands) ==
    LET s == Search(w, nes, cands, m.inputs_future)
    IN  [best_result |-> s.best_result,
         m |-> StuckCheck(
                 [m EXCEPT !.inputs_future = s.inputs_future,
                           !.states = IF @ = <<>> THEN @
                                      ELSE [@ EXCEPT ![Len(@)] =
                                              RunClone(w, nes, s.inputs_future)]],
                 s.best_result, score)]

\* lines 189-229, given the lists the calls of next_input produced
RegularInput(m, w, nes, score, cands) ==
    LET s == Search(w, nes, cands, m.inputs_future)
    IN  [best_result |-> s.best_result,
         m |-> StuckCheck([m EXCEPT !.inputs_future = s.inputs_future],
                          s.best_result, score)]

----------------------------------------------------------------------------
(* The history variable obs *)

\* a Mario with nothing in it (the value of obs.pre before the first tick)
Spawn_blank ==
    [personality |-> [patient |-> 0, random |-> 0, playful |-> 0, smart |-> 0],
     being_random |-> None, revert_stack |-> <<>>, stuck_count |-> 0,
     inputs_past |-> <<>>, inputs_future |-> <<>>, states |-> <<>>]

NoObs ==
    [kind |-> "init", decisions |-> 0, frames |-> 0, reverted |-> FALSE, amount |-> 0,
     rs_before |-> <<>>, landed |-> 0, prev_landed |-> 0,
     start |-> PowerOn, score |-> Dying(FALSE), cands |-> <<>>, outs |-> <<>>,
     best |-> Dying(FALSE), queue |-> <<>>, past |-> <<>>, kept |-> <<>>,
     entered_random |-> FALSE, run |-> 0,
     pre |-> Spawn_blank, held |-> <<>>, walked |-> 0, wrote |-> 0,
     last_scored |-> 0, last_front |-> 0]

\* the distance of the latest Level outcome: d if `out` is one, else `known`
LatestDistance(out, known) == IF out.tag = "Level" THEN out.d ELSE known

\* the rollout's best is no better than the current state and not a cutscene
Stuck(best, score) == le(best, score) /\ best # Cutscene

\* what a tick observed: b is Begin's result, filled the Mario just before
\* line 234
Observe(kind, b, filled, cands, best, run) ==
    [kind |-> kind,
     decisions |-> obs.decisions + (IF kind = "drain" THEN 0 ELSE 1),
     frames |-> IF obs.decisions = 0 THEN 0 ELSE obs.frames + 1,
     reverted |-> b.rv.reverted, amount |-> b.rv.amount,
     rs_before |-> b.rv.rs_before,
     landed |-> IF kind = "drain" THEN obs.landed ELSE b.rv.landed,
     prev_landed |-> IF kind = "drain" THEN obs.prev_landed ELSE obs.landed,
     start |-> b.nes, score |-> b.score, cands |-> cands,
     outs |-> [i \in 1..Len(cands) |-> Evaluate(world, RunClone(world, b.nes, cands[i]))],
     best |-> best, queue |-> filled.inputs_future, past |-> filled.inputs_past,
     kept |-> filled.states,
     entered_random |-> mario.being_random = None /\ filled.being_random # None,
     run |-> run,
     pre |-> mario, held |-> b.m.states,
     walked |-> IF kind = "random" THEN obs.walked + 1
                ELSE IF kind = "search" THEN 0 ELSE obs.walked,
     wrote |-> IF Finish(filled, world, b.nes).panic = "none" THEN 1 ELSE 0,
     last_scored |-> LatestDistance(b.score, obs.last_scored),
     last_front |->
        IF Finish(filled, world, b.nes).panic # "none" THEN obs.last_front
        ELSE LatestDistance(
                Evaluate(world, Last(Finish(filled, world, b.nes).m.states)),
                obs.last_front)]

\* a tick that panicked before line 234
Aborted(kind, b) ==
    [NoObs EXCEPT !.kind = kind,
                  !.decisions = obs.decisions + (IF kind = "drain" THEN 0 ELSE 1),
                  !.frames = IF obs.decisions = 0 THEN 0 ELSE obs.frames + 1,
                  !.reverted = b.rv.reverted, !.amount = b.rv.amount,
                  !.rs_before = b.rv.rs_before, !.start = b.nes,
                  !.score = b.score, !.pre = mario, !.walked = obs.walked,
                  !.last_scored = obs.last_scored,
                  !.last_front = obs.last_front]

----------------------------------------------------------------------------
(* One tick of the worker loop on this Mario (line 398), by case *)

\* scores_clone.lock().unwrap()[*i] = scroll(nes) (lines 400-402)
Publish(published, i, w, m) ==
    [published EXCEPT ![i] = scroll(SimRam(w, Last(m.states)))]

\* the tick ends: either next_frame returned and the score is published, or
\* the thread panicked
Complete(kind, b, filled, cands, best, run) ==
    LET f == Finish(filled, world, b.nes)
    IN  /\ mario' = f.m
        /\ panicked' = f.panic
        /\ scores' = IF f.panic = "none" THEN Publish(scores, 0, world, f.m)
                      ELSE scores
        /\ obs' = Observe(kind, b, filled, cands, best, run)

Abort(kind, b, why) ==
    /\ mario' = b.m
    /\ panicked' = why
    /\ scores' = scores
    /\ obs' = Aborted(kind, b)

\* the queue is not empty: apply its next input
TickDrain ==
    /\ panicked = "none"
    /\ mario.inputs_future # <<>>
    /\ LET b == Begin(mario, world)
       IN  IF b.panic # "none" THEN Abort("drain", b, b.panic)
           ELSE Complete("drain", b, b.m, <<>>, obs.best, obs.run)
    /\ UNCHANGED <<world, probe, pool, locks>>

\* a decision point in random mode
TickRandom(limit) ==
    /\ panicked = "none"
    /\ mario.inputs_future = <<>>
    /\ mario.being_random # None
    /\ obs.frames < limit
    /\ LET b == Begin(mario, world)
       IN  IF b.panic # "none" THEN Abort("random", b, b.panic)
           ELSE IF b.m.inputs_past = <<>>
           THEN Abort("random", b, "inputs_past.last")
           ELSE \E walk \in Chains(Last(b.m.inputs_past), mario.personality.playful) :
                  Complete("random", b, PushCounter(RandomInput(b.m, walk)),
                           <<>>, obs.best, 0)
    /\ UNCHANGED <<world, probe, pool, locks>>

\* a decision point in regular mode: the rollout search
TickSearch(limit) ==
    /\ panicked = "none"
    /\ mario.inputs_future = <<>>
    /\ mario.being_random = None
    /\ obs.frames < limit
    /\ LET b == Begin(mario, world)
       IN  IF b.panic # "none" THEN Abort("search", b, b.panic)
           ELSE IF b.m.inputs_past = <<>> /\ mario.personality.smart > 0
           THEN Abort("search", b, "inputs_past.last")
           ELSE \E cands \in Candidates(Last(b.m.inputs_past), mario.personality) :
                  LET r == RegularInput(b.m, world, b.nes, b.score, cands)
                  IN  Complete("search", b, PushCounter(r.m), cands, r.best_result,
                               IF Stuck(r.best_result, b.score)
                               THEN obs.run + 1 ELSE 0)
    /\ UNCHANGED <<world, probe, pool, locks>>

----------------------------------------------------------------------------
(* Spawn (main, lines 306-337) and the levels and personalities explored *)

NoProbe == [kind |-> "none"]

\* scores.push(0u32) (line 355), for a population of one
OneSlot == [i \in {0} |-> 0]

\* no population: the specification follows a single Mario
NoPool == [phase |-> "none"]

\* the mutexes are not followed: each locked statement is one step
NoLocks == [phase |-> "none"]

\* the scripted queue: zeros, START, zeros, and the extra zeros of line 334
Script(extra) ==
    [k \in 1..ScriptLead |-> 0] \o <<8>> \o [k \in 1..(ScriptTail + extra) |-> 0]

Spawn(p, extra) ==
    [personality |-> p, being_random |-> None, revert_stack |-> <<0>>,
     stuck_count |-> 0, inputs_past |-> <<>>, inputs_future |-> Script(extra),
     states |-> <<PowerOn>>]

Personalities ==
    { [patient |-> 3, random |-> 2, playful |-> 1, smart |-> 1],
      [patient |-> 2, random |-> 1, playful |-> 1, smart |-> 2],
      [patient |-> 1, random |-> 2, playful |-> 2, smart |-> 2] }

Worlds ==
    { [cells |-> <<"ground", "ground", "ground">>, time_limit |-> 400],
      [cells |-> <<"pit", "pit", "pit">>, time_limit |-> 400],
      [cells |-> <<"ground", "ground", "pit">>, time_limit |-> 400],
      [cells |-> <<"ground", "pipe", "ground">>, time_limit |-> 400],
      [cells |-> <<"ground", "ground", "ground">>, time_limit |-> 6] }

Init ==
    /\ world \in Worlds
    /\ \E p \in Personalities, extra \in 0..MaxExtra : mario = Spawn(p, extra)
    /\ panicked = "none"
    /\ obs = NoObs
    /\ probe = NoProbe
    /\ scores = OneSlot
    /\ pool = NoPool
    /\ locks = NoLocks

Next ==
    \/ TickDrain
    \/ TickRandom(MaxFrames)
    \/ TickSearch(MaxFrames)

Spec == Init /\ [][Next]_vars

----------------------------------------------------------------------------
(* The long run: a level that is one unending cutscene, one candidate *)

InitLong ==
    /\ world = [cells |-> <<"pipe">>, time_limit |-> 400]
    /\ mario = Spawn([patient |-> 2, random |-> 1, playful |-> 1, smart |-> 1], 0)
    /\ panicked = "none"
    /\ obs = NoObs
    /\ probe = NoProbe
    /\ scores = OneSlot
    /\ pool = NoPool
    /\ locks = NoLocks

NextLong ==
    \/ TickDrain
    \/ TickSearch(LongFrames)

SpecLong == InitLong /\ [][NextLong]_vars

----------------------------------------------------------------------------
(* The population: the partition (lines 369-386), the worker threads         *)
(* (lines 388-409) and the consumer of the published scores (lines 465-479). *)
(* A Mario is named by its spawn position, 0 .. amount - 1.                  *)

\* the results next_frame(mario) can have: the thread panics, or the Mario is
\* left as `m`
next_frame_from(m, w, b) ==
    IF b.panic # "none" THEN { [panic |-> b.panic, m |-> b.m] }
    ELSE IF ~is_decision_point(m) THEN { Finish(b.m, w, b.nes) }
    ELSE IF b.m.inputs_past = <<>>
    THEN { [panic |-> "inputs_past.last", m |-> b.m] }
    ELSE IF b.m.being_random # None
    THEN { Finish(filled, w, b.nes) :
             filled \in { PushCounter(RandomInput(b.m, walk)) :
                            walk \in Chains(Last(b.m.inputs_past),
                                            m.personality.playful) } }
    ELSE { Finish(filled, w, b.nes) :
             filled \in { PushCounter(RegularInput(b.m, w, b.nes, b.score, cands).m) :
                            cands \in Candidates(Last(b.m.inputs_past),
                                                 m.personality) } }

\* next_frame: lines 152-174, then the rest from what they left
next_frame(m, w) == UNION { next_frame_from(m, w, b) : b \in {Begin(m, w)} }

\* a variant of the stride that rounds down
Stride_floor(amount, count) == amount \div count

\* (amount - 1) / count + 1
Stride(amount, count) == (amount - 1) \div count + 1

RECURSIVE Submarios(_, _, _, _, _)
\* iterations j.. of the inner loop for worker i; marios is the queue left
Submarios(i, j, per, marios, submarios) ==
    IF j >= per \/ marios = <<>> THEN [submarios |-> submarios, marios |-> marios]
    ELSE Submarios(i, j + 1, per, Tail(marios),
                   Append(submarios, [slot |-> i * per + j, mario |-> Head(marios)]))

RECURSIVE Subdivide(_, _, _, _, _)
\* iterations i.. of the outer loop
Subdivide(i, count, per, marios, subdivides) ==
    IF i >= count THEN subdivides
    ELSE LET r == Submarios(i, 0, per, marios, <<>>)
         IN  Subdivide(i + 1, count, per, r.marios, Append(subdivides, r.submarios))

\* every Mario of the population runs this personality: one candidate, the
\* last input repeated
PoolPersonality == [patient |-> 3, random |-> 2, playful |-> 1, smart |-> 1]

Ground == [cells |-> <<"ground", "ground", "ground">>, time_limit |-> 400]

Pits == [cells |-> <<"pit", "pit", "pit">>, time_limit |-> 400]

\* ticks of one Mario explored: the scripted queue and the first decision point
PoolTicks == Len(Script(0)) + 1

\* the workers are run for the small populations only
Ticked == pool.phase = "running" /\ pool.amount <= MaxTicked

\* the state main leaves before the scheduler thread starts (lines 300-363):
\* the queue of Marios in spawn order and one score slot each; `unlucky` is
\* the Mario, if any, whose level is all pits
Population(amount, count, unlucky) ==
    [phase |-> "spawned", amount |-> amount, count |-> count,
     marios |-> [k \in 1..amount |-> k - 1],
     subdivides |-> <<>>,
     agents |-> [a \in 0..(amount - 1) |-> Spawn(PoolPersonality, 0)],
     levels |-> [a \in 0..(amount - 1) |-> IF a = unlucky THEN Pits ELSE Ground],
     pos |-> [w \in 1..count |-> 1],
     alive |-> [w \in 1..count |-> "none"],
     done |-> [a \in 0..(amount - 1) |-> 0],
     failed |-> [a \in 0..(amount - 1) |-> FALSE],
     by |-> [a \in 0..(amount - 1) |-> {}],
     writer |-> [i \in 0..(amount - 1) |-> {}],
     shown |-> [i \in 0..(amount - 1) |-> 0],
     frame |-> 0]

InitPool ==
    /\ world = Ground
    /\ mario = Spawn(PoolPersonality, 0)
    /\ panicked = "none"
    /\ obs = NoObs
    /\ probe = NoProbe
    /\ locks = NoLocks
    /\ \E amount \in 1..MaxAmount, count \in 1..MaxCount :
          /\ scores = [i \in 0..(amount - 1) |-> 0]
          /\ \E unlucky \in (IF amount <= MaxTicked THEN -1..(amount - 1) ELSE {-1}) :
                pool = Population(amount, count, unlucky)

\* lines 369-386: the queue is dealt out to the workers
Partition ==
    /\ pool.phase = "spawned"
    /\ pool' = [pool EXCEPT
                  !.phase = "running",
                  !.marios = <<>>,
                  !.subdivides = Subdivide(0, pool.count,
                                           Stride(pool.amount, pool.count),
                                           pool.marios, <<>>)]
    /\ UNCHANGED <<mario, world, panicked, obs, probe, scores, locks>>

\* worker w's thread is running, has a Mario to tick and that Mario has ticks
\* left to explore
CanTick(w) ==
    /\ Ticked
    /\ w <= pool.count
    /\ pool.alive[w] = "none"
    /\ pool.subdivides[w] # <<>>
    /\ pool.done[pool.subdivides[w][pool.pos[w]].mario] < PoolTicks

\* one iteration of the for loop of lines 397-405 in worker w's thread:
\* next_frame on the next Mario of its sublist, then the score is published
PoolTick(w) ==
    /\ CanTick(w)
    /\ LET pair == pool.subdivides[w][pool.pos[w]]
           a == pair.mario
       IN  \E r \in next_frame(pool.agents[a], pool.levels[a]) :
                 IF r.panic # "none"
                 THEN /\ pool' = [pool EXCEPT !.alive[w] = r.panic,
                                              !.failed[a] = TRUE,
                                              !.agents[a] = r.m]
                      /\ scores' = scores
                 ELSE IF pair.slot \notin DOMAIN scores
                 THEN /\ pool' = [pool EXCEPT !.alive[w] = "scores index",
                                              !.agents[a] = r.m]
                      /\ scores' = scores
                 ELSE /\ pool' = [pool EXCEPT
                                    !.agents[a] = r.m,
                                    !.done[a] = @ + 1,
                                    !.by[a] = @ \cup {w},
                                    !.writer[pair.slot] = @ \cup {a},
                                    !.pos[w] = IF @ = Len(pool.subdivides[w])
                                               THEN 1 ELSE @ + 1]
                      /\ scores' = Publish(scores, pair.slot, pool.levels[a], r.m)
    /\ UNCHANGED <<mario, world, panicked, obs, probe, locks>>

\* lines 465-479: the render loop copies every score, under the lock, into
\* the values of the screen and counts the frame (here modulo 2)
Consume ==
    /\ pool.phase = "running"
    /\ pool' = [pool EXCEPT !.shown = scores, !.frame = 1 - @]
    /\ UNCHANGED <<mario, world, panicked, obs, probe, scores, locks>>

NextPool ==
    \/ Partition
    \/ \E w \in 1..MaxCount : PoolTick(w)
    \/ Consume

SpecPool == InitPool /\ [][NextPool]_vars

\* the small populations only, at most one worker per Mario
InitPoolSmall ==
    /\ InitPool
    /\ pool.amount <= MaxTicked
    /\ pool.count <= pool.amount

\* the threads of the pool are scheduled fairly: a worker that can tick does
\* not wait forever
SpecPoolFair ==
    /\ InitPoolSmall
    /\ [][NextPool]_vars
    /\ \A w \in 1..MaxTicked : WF_vars(PoolTick(w))

----------------------------------------------------------------------------
(* The three mutexes (lines 357-359) and the statements that lock them: the  *)
(* worker loop (lines 397-405), the score consumer (lines 465-479) and the   *)
(* drawing callbacks of animate (lines 512-521, 551-560).  Thread 0 is the   *)
(* event loop, thread w >= 1 the worker of sublist w.  A thread is at "run"  *)
(* (outside the locked statements), at "wait" (inside lock() of locks.on),   *)
(* at "hold" (past lock(), before the guard is dropped), at "draw" (the      *)
(* event loop inside advance_time) or "dead" (panicked).                     *)

LockNames == {"scores", "backgrounds", "sprites"}

Render == 0

Threads == {Render} \cup (1..LockWorkers)

\* a variant in which the guard is bound to a variable of the enclosing block
\* and lives on after the statement
GuardScope_kept(holds, l) == holds

\* the guard returned by lock().unwrap() is a temporary: it is dropped at the
\* end of the statement (lines 402-404), of the for loop (line 471) or of the
\* block (lines 512-521)
GuardScope(holds, l) == holds \ {l}

\* no thread holds the mutex
Free(l) == \A t \in Threads : l \notin locks.holds[t]

InitLock ==
    /\ world = Ground
    /\ mario = Spawn(PoolPersonality, 0)
    /\ panicked = "none"
    /\ obs = NoObs
    /\ probe = NoProbe
    /\ scores = [i \in 0..(LockWorkers - 1) |-> 0]
    /\ \E unlucky \in -1..(LockWorkers - 1) :
          pool = Population(LockWorkers, LockWorkers, unlucky)
    /\ locks = [phase |-> "threads",
                at |-> [t \in Threads |-> "run"],
                on |-> [t \in Threads |-> "none"],
                holds |-> [t \in Threads |-> {}],
                poisoned |-> {}]

\* line 398 in worker w's thread: next_frame on the next Mario of its sublist;
\* if it returns, the thread goes on to the statement of line 402
WorkerFrame(w) ==
    /\ pool.phase = "running"
    /\ locks.at[w] = "run"
    /\ pool.alive[w] = "none"
    /\ pool.subdivides[w] # <<>>
    /\ pool.done[pool.subdivides[w][pool.pos[w]].mario] < PoolTicks
    /\ LET a == pool.subdivides[w][pool.pos[w]].mario
       IN  \E r \in next_frame(pool.agents[a], pool.levels[a]) :
              IF r.panic # "none"
              THEN /\ pool' = [pool EXCEPT !.alive[w] = r.panic,
                                           !.failed[a] = TRUE,
                                           !.agents[a] = r.m]
                   /\ locks' = [locks EXCEPT !.at[w] = "dead"]
              ELSE /\ pool' = [pool EXCEPT !.agents[a] = r.m]
                   /\ locks' = [locks EXCEPT !.at[w] = "wait", !.on[w] = "scores"]
    /\ UNCHANGED <<mario, world, panicked, obs, probe, scores>>

\* lock() returns in thread t: the mutex is free; unwrap() panics if a thread
\* died holding it
Acquire(t) ==
    /\ locks.phase = "threads"
    /\ locks.at[t] = "wait"
    /\ Free(locks.on[t])
    /\ locks' = IF locks.on[t] \in locks.poisoned
                THEN [locks EXCEPT !.at[t] = "dead"]
                ELSE [locks EXCEPT !.at[t] = "hold",
                                   !.holds[t] = @ \cup {locks.on[t]}]
    /\ pool' = IF locks.on[t] \in locks.poisoned /\ t # Render
               THEN [pool EXCEPT !.alive[t] = "lock"]
               ELSE pool
    /\ UNCHANGED <<mario, world, panicked, obs, probe, scores>>

\* the rest of one of the statements of lines 402-404 in worker w's thread:
\* the element is stored and the guard dropped; after the last of them the
\* for loop moves to the next Mario
WorkerStore(w) ==
    /\ w # Render
    /\ locks.phase = "threads"
    /\ locks.at[w] = "hold"
    /\ LET pair == pool.subdivides[w][pool.pos[w]]
           a == pair.mario
           l == locks.on[w]
       IN  IF pair.slot \notin DOMAIN scores
           THEN /\ locks' = [locks EXCEPT !.at[w] = "dead",
                                          !.holds[w] = @ \ {l},
                                          !.poisoned = @ \cup {l}]
                /\ pool' = [pool EXCEPT !.alive[w] = "index"]
                /\ scores' = scores
           ELSE IF l = "scores"
           THEN /\ scores' = Publish(scores, pair.slot, pool.levels[a], pool.agents[a])
                /\ pool' = [pool EXCEPT !.writer[pair.slot] = @ \cup {a}]
                /\ locks' = [locks EXCEPT !.at[w] = "wait",
                                          !.on[w] = "backgrounds",
                                          !.holds[w] = GuardScope(@, l)]
           ELSE IF l = "backgrounds"
           THEN /\ scores' = scores
                /\ pool' = pool
                /\ locks' = [locks EXCEPT !.at[w] = "wait",
                                          !.on[w] = "sprites",
                                          !.holds[w] = GuardScope(@, l)]
           ELSE /\ scores' = scores
                /\ pool' = [pool EXCEPT
                              !.done[a] = @ + 1,
                              !.by[a] = @ \cup {w},
                              !.pos[w] = IF @ = Len(pool.subdivides[w])
                                         THEN 1 ELSE @ + 1]
                /\ locks' = [locks EXCEPT !.at[w] = "run",
                                          !.on[w] = "none",
                                          !.holds[w] = GuardScope(@, l)]
    /\ UNCHANGED <<mario, world, panicked, obs, probe>>

\* line 471 in the event loop: the closure of screen.values reaches
\* scores.lock()
RenderValues ==
    /\ locks.phase = "threads"
    /\ locks.at[Render] = "run"
    /\ locks' = [locks EXCEPT !.at[Render] = "wait", !.on[Render] = "scores"]
    /\ UNCHANGED <<mario, world, panicked, obs, probe, scores, pool>>

\* lines 471-475: every score is copied into the values of the screen; the
\* guard is dropped when the for loop ends, then advance_time runs the script
RenderCopy ==
    /\ locks.phase = "threads"
    /\ locks.at[Render] = "hold"
    /\ locks.on[Render] = "scores"
    /\ pool' = [pool EXCEPT !.shown = scores, !.frame = 1 - @]
    /\ locks' = [locks EXCEPT !.at[Render] = "draw",
                              !.on[Render] = "none",
                              !.holds[Render] = GuardScope(@, "scores")]
    /\ UNCHANGED <<mario, world, panicked, obs, probe, scores>>

\* the script emits instruction 128 (line 513) or 129 (line 552)
RenderEmit(l) ==
    /\ locks.phase = "threads"
    /\ locks.at[Render] = "draw"
    /\ l \in {"backgrounds", "sprites"}
    /\ locks' = [locks EXCEPT !.at[Render] = "wait", !.on[Render] = l]
    /\ UNCHANGED <<mario, world, panicked, obs, probe, scores, pool>>

\* lines 512-521, 551-560: the image is made from the frame and the guard is
\* dropped at the end of the block
RenderImage ==
    /\ locks.phase = "threads"
    /\ locks.at[Render] = "hold"
    /\ locks.on[Render] \in {"backgrounds", "sprites"}
    /\ locks' = [locks EXCEPT !.at[Render] = "draw",
                              !.on[Render] = "none",
                              !.holds[Render] = GuardScope(@, locks.on[Render])]
    /\ UNCHANGED <<mario, world, panicked, obs, probe, scores, pool>>

\* advance_time returns and the buffers are swapped (lines 482-485)
RenderSwap ==
    /\ locks.phase = "threads"
    /\ locks.at[Render] = "draw"
    /\ locks' = [locks EXCEPT !.at[Render] = "run"]
    /\ UNCHANGED <<mario, world, panicked, obs, probe, scores, pool>>

NextLock ==
    \/ Partition
    \/ \E w \in 1..LockWorkers : WorkerFrame(w)
    \/ \E t \in Threads : Acquire(t)
    \/ \E w \in 1..LockWorkers : WorkerStore(w)
    \/ RenderValues
    \/ RenderCopy
    \/ \E l \in LockNames : RenderEmit(l)
    \/ RenderImage
    \/ RenderSwap

\* fair scheduling: a thread past lock() finishes its statement, and a thread
\* inside lock() gets the mutex if it is free again and again
SpecLock ==
    /\ InitLock
    /\ [][NextLock]_vars
    /\ \A t \in Threads : SF_vars(Acquire(t))
    /\ \A w \in 1..LockWorkers : WF_vars(WorkerStore(w))
    /\ WF_vars(RenderCopy)
    /\ WF_vars(RenderImage)

----------------------------------------------------------------------------
(* The comparison operators applied to every pair of outcomes *)

FitnessSet == {Dying(TRUE), Dying(FALSE), Cutscene} \cup {Level(n) : n \in 0..MaxDist}

InitOrd ==
    /\ world = [cells |-> <<"ground">>, time_limit |-> 400]
    /\ mario = Spawn([patient |-> 1, random |-> 1, playful |-> 1, smart |-> 1], 0)
    /\ panicked = "none"
    /\ obs = NoObs
    /\ scores = OneSlot
    /\ pool = NoPool
    /\ locks = NoLocks
    /\ \E a \in FitnessSet, b \in FitnessSet :
          probe = [kind |-> "cmp", a |-> a, b |-> b, done |-> FALSE,
                   ord |-> "?", rev |-> "?", eq |-> FALSE,
                   lt |-> FALSE, le |-> FALSE, gt |-> FALSE, ge |-> FALSE]

Compare ==
    /\ probe.kind = "cmp"
    /\ ~probe.done
    /\ probe' = [probe EXCEPT !.done = TRUE,
                              !.ord = partial_cmp(probe.a, probe.b),
                              !.rev = partial_cmp(probe.b, probe.a),
                              !.eq = FitnessEq(probe.a, probe.b),
                              !.lt = lt(probe.a, probe.b),
                              !.le = le(probe.a, probe.b),
                              !.gt = gt(probe.a, probe.b),
                              !.ge = ge(probe.a, probe.b)]
    /\ UNCHANGED <<mario, world, panicked, obs, scores, pool, locks>>

NextOrd == Compare

SpecOrd == InitOrd /\ [][NextOrd]_vars

Compared == probe.kind = "cmp" /\ probe.done

----------------------------------------------------------------------------
(* fitness() applied to the bytes it reads *)

EngineBytes == {0, 5, 6, 7, 8, 11}

ModeBytes == {0, 1, 2, 3}

TaskBytes == {0, 3}

\* 456 is 1 * 256 + 200
HighBytes == {0, 1, 2}

LowBytes == {0, 200, 201}

DigitBytes == {0, 1}

RamSet ==
    [ page : {0}, x : {0, 5}, world : {0}, level : {0},
      scroll_page : {0}, scroll_x : {0},
      engine : EngineBytes, task : TaskBytes, mode : ModeBytes,
      y_hi : HighBytes, y_lo : LowBytes,
      t100 : DigitBytes, t10 : DigitBytes, t1 : DigitBytes ]

InitFit ==
    /\ world = Ground
    /\ mario = Spawn(PoolPersonality, 0)
    /\ panicked = "none"
    /\ obs = NoObs
    /\ scores = OneSlot
    /\ pool = NoPool
    /\ locks = NoLocks
    /\ \E ram \in RamSet :
          probe = [kind |-> "fit", ram |-> ram, done |-> FALSE, out |-> Dying(FALSE)]

Classify ==
    /\ probe.kind = "fit"
    /\ ~probe.done
    /\ probe' = [probe EXCEPT !.done = TRUE, !.out = fitness(probe.ram)]
    /\ UNCHANGED <<mario, world, panicked, obs, scores, pool, locks>>

NextFit == Classify

SpecFit == InitFit /\ [][NextFit]_vars

Classified == probe.kind = "fit" /\ probe.done

----------------------------------------------------------------------------
(* next_input() applied to every byte, next to the ticks of Spec *)

\* the values rng.gen_range(0..6) can return
RngDraws == 0..5

\* the runs of the while loop of up to two iterations
InputRuns ==
    {<<>>} \cup { <<r>> : r \in RngDraws } \cup { <<r, q>> : r, q \in RngDraws }

InitGen ==
    /\ world = Ground
    /\ mario = Spawn(PoolPersonality, 0)
    /\ panicked = "none"
    /\ obs = NoObs
    /\ scores = OneSlot
    /\ pool = NoPool
    /\ locks = NoLocks
    /\ \E prev \in 0..255, run \in InputRuns :
          probe = [kind |-> "input", prev |-> prev, run |-> run,
                   done |-> FALSE, next |-> 0]

\* next_input(prev, personality) with the loop taking the run probed
Generate ==
    /\ probe.kind = "input"
    /\ ~probe.done
    /\ probe' = [probe EXCEPT !.done = TRUE, !.next = Flips(probe.prev, probe.run)]
    /\ UNCHANGED <<mario, world, panicked, obs, scores, pool, locks>>

InitInput == Init \/ InitGen

NextInput ==
    \/ probe.kind = "none" /\ TickDrain
    \/ probe.kind = "none" /\ TickRandom(MaxFrames)
    \/ probe.kind = "none" /\ TickSearch(MaxFrames)
    \/ Generate

SpecInput == InitInput /\ [][NextInput]_vars

Generated == probe.kind = "input" /\ probe.done

----------------------------------------------------------------------------
(* Properties *)

HistoryCap == 400

SameOutcome(x, y) == partial_cmp(x, y) = "Equal"

AllTied == \A j, k \in 1..Len(obs.cands) : SameOutcome(obs.outs[j], obs.outs[k])

Searched == obs.kind = "search" /\ obs.cands # <<>>

\* C1, as amended: at a Searching decision point the candidate kept is the
\* latest-generated one among those with the greatest outcome (a later
\* candidate replaces the current best when its outcome is greater or equal);
\* if all candidates evaluate to equal outcomes, the queue holds the
\* last-generated candidate.
C1_TieKeepsLatest ==
    Searched =>
        /\ \E i \in 1..Len(obs.cands) :
              /\ obs.queue = obs.cands[i]
              /\ obs.best = obs.outs[i]
              /\ \A j \in 1..Len(obs.cands) : le(obs.outs[j], obs.outs[i])
              /\ \A j \in (i + 1)..Len(obs.cands) : lt(obs.outs[j], obs.outs[i])
        /\ AllTied => obs.queue = obs.cands[Len(obs.cands)]

\* C1, as claimed: the earliest-generated candidate among those with the
\* greatest outcome is kept; if all are equal, the first-generated one.
C1_TieKeepsEarliest ==
    Searched =>
        /\ \E i \in 1..Len(obs.cands) :
              /\ obs.queue = obs.cands[i]
              /\ \A j \in 1..Len(obs.cands) : le(obs.outs[j], obs.outs[i])
              /\ \A j \in 1..(i - 1) : lt(obs.outs[j], obs.outs[i])
        /\ AllTied => obs.queue = obs.cands[1]

C1_Witness ==
    /\ Searched
    /\ panicked = "none"
    /\ Len(obs.cands) >= 2
    /\ AllTied
    /\ obs.cands[1] # obs.cands[Len(obs.cands)]
    /\ obs.queue = obs.cands[Len(obs.cands)]

\* C2, as amended: under partial_cmp every Dying value is strictly less than
\* every Level(d) and than Cutscene, every Level(d) is strictly less than
\* Cutscene, and Level(a) < Level(b) exactly when a < b:
\* Failing < Progressing < Transitional.
C2_CategoryOrder ==
    Compared =>
        /\ (probe.a.tag = "Dying" /\ probe.b.tag # "Dying") => probe.lt
        /\ (probe.a.tag = "Level" /\ probe.b.tag = "Cutscene") => probe.lt
        /\ (probe.a.tag = "Level" /\ probe.b.tag = "Level") =>
              (probe.lt <=> probe.a.d < probe.b.d)

\* C2, as claimed: Failing < Transitional < Progressing.
C2_TransitionalBelowProgressing ==
    Compared =>
        /\ (probe.a.tag = "Dying" /\ probe.b.tag # "Dying") => probe.lt
        /\ (probe.a.tag = "Cutscene" /\ probe.b.tag = "Level") => probe.lt
        /\ (probe.a.tag = "Level" /\ probe.b.tag = "Level") =>
              (probe.lt <=> probe.a.d < probe.b.d)

C2_Witness ==
    /\ Compared
    /\ probe.a = Level(MaxDist)
    /\ probe.b = Cutscene
    /\ probe.lt

ExactlyOne(p, q, r) == (p /\ ~q /\ ~r) \/ (~p /\ q /\ ~r) \/ (~p /\ ~q /\ r)

\* C3, as amended: for any two outcomes exactly one of a < b, a > b and
\* partial_cmp(a, b) = Equal holds, and a < b exactly when b > a; Dying(true)
\* and Dying(false) compare Equal (a <= b and a >= b both hold), but the
\* derived == tells them apart; a == b implies Equal.
C3_Trichotomy ==
    Compared =>
        /\ ExactlyOne(probe.lt, probe.ord = "Equal", probe.gt)
        /\ probe.lt <=> probe.rev = "Greater"
        /\ probe.gt <=> probe.rev = "Less"
        /\ (probe.a.tag = "Dying" /\ probe.b.tag = "Dying") =>
              /\ probe.ord = "Equal" /\ probe.le /\ probe.ge
              /\ probe.eq <=> probe.a.terminal = probe.b.terminal
        /\ probe.eq => probe.ord = "Equal"

\* C3, as claimed: exactly one of a < b, a == b, a > b holds, and any two
\* Dying values are == to each other.
C3_TrichotomyWithEq ==
    Compared =>
        /\ ExactlyOne(probe.lt, probe.eq, probe.gt)
        /\ (probe.a.tag = "Dying" /\ probe.b.tag = "Dying") => probe.eq

C3_Witness ==
    /\ Compared
    /\ probe.a = Dying(TRUE)
    /\ probe.b = Dying(FALSE)
    /\ probe.ord = "Equal"
    /\ ~probe.eq

\* the revert was asked for at least as many checkpoints as the history held,
\* or every checkpoint left after the requested ones had a nonzero counter
Exhausting ==
    /\ obs.reverted
    /\ \A i \in 1..(Len(obs.rs_before) - obs.amount) : obs.rs_before[i] >= 1

\* C4: a revert that exhausts the history stops at the oldest surviving
\* checkpoint, does not fail, and leaves the history non-empty.
C4_RevertClampsAtFloor ==
    Exhausting =>
        /\ panicked = "none"
        /\ obs.landed >= 1
        /\ mario.revert_stack # <<>>
        /\ mario.states # <<>>

\* C5: no tick ever takes an element from an empty queue, state list, counter
\* stack or input list: every tick runs to completion.
C5_NoFatalPath == panicked = "none"

\* C6: every completed tick takes exactly the front of the queue as it stood
\* after any refill, appends it to the applied inputs as they stood after any
\* revert, and leaves as frontier the state the tick worked from (the current
\* state, or the reverted one) stepped once with that input; the checkpoints
\* below the frontier are those held before line 234.
C6_OneFramePerTick ==
    (obs.kind # "init" /\ panicked = "none") =>
        /\ obs.queue # <<>>
        /\ mario.inputs_future = Tail(obs.queue)
        /\ mario.inputs_past = Append(obs.past, Head(obs.queue))
        /\ mario.states # <<>>
        /\ Last(mario.states) = SimStep(world, obs.start, Head(obs.queue))
        /\ Len(Last(mario.states).inputs) = Len(obs.start.inputs) + 1
        /\ PopN(mario.states, 1) = obs.kept

C6_Witness ==
    /\ obs.kind = "search"
    /\ obs.reverted
    /\ panicked = "none"
    /\ Len(obs.cands) >= 2
    /\ Len(obs.queue) >= 2

\* C7: the number of checkpoints held never exceeds the cap of 400.
C7_CheckpointCap == Len(mario.states) - 1 <= HistoryCap

\* the newest counter left once the requested checkpoints are popped
Reached == Len(obs.rs_before) - obs.amount

\* C8: a revert never lands on a checkpoint whose counter is nonzero: it lands
\* on one whose counter was zero, every checkpoint between the landing point
\* and the one the requested rewind reached had a nonzero counter and was
\* popped, so when the rewind reaches an already used checkpoint the landing
\* is strictly earlier; a revert at the decision point right after a revert
\* lands strictly earlier than that one did; the landing counter becomes 1.
C8_AntiThrash ==
    (obs.reverted /\ obs.landed >= 1) =>
        /\ obs.landed <= Reached
        /\ obs.rs_before[obs.landed] = 0
        /\ \A i \in (obs.landed + 1)..Reached : obs.rs_before[i] >= 1
        /\ obs.rs_before[Reached] >= 1 => obs.landed < Reached
        /\ obs.prev_landed >= 1 => obs.landed < obs.prev_landed
        /\ panicked = "none" =>
              mario.revert_stack
                 = SubSeq(obs.rs_before, 1, obs.landed - 1) \o <<1, 0>>

C8_Witness ==
    /\ obs.reverted
    /\ panicked = "none"
    /\ Reached >= 1
    /\ obs.rs_before[Reached] >= 1
    /\ obs.landed >= 1
    /\ obs.landed < Reached

\* C9: a Searching decision point switches to random mode exactly when it is
\* the patient-th consecutive decision point whose rollout search was counted
\* as stuck; stuck decisions separated by an improving one do not add up.
C9_ConsecutivePatience ==
    (obs.kind = "search" /\ panicked = "none") =>
        (obs.entered_random <=> obs.run = mario.personality.patient)

AlwaysFailing ==
    /\ \A i \in 1..Len(world.cells) : world.cells[i] = "pit"
    /\ world.time_limit = 400

\* C10: with patient = 3, smart = 1, playful = 1 and every state
\* Dying(false), no tick fails, the agent is Searching up to its third
\* decision point, RandomWalking for the next `random` ones and Searching
\* again after them.
C10_AlwaysFailingScenario ==
    (/\ AlwaysFailing
     /\ mario.personality.patient = 3
     /\ mario.personality.smart = 1
     /\ mario.personality.playful = 1) =>
        /\ panicked = "none"
        /\ obs.decisions < 3 => mario.being_random = None
        /\ (obs.decisions >= 3 /\ obs.decisions < 3 + mario.personality.random)
              => mario.being_random # None
        /\ obs.decisions = 3 + mario.personality.random
              => mario.being_random = None

NobodyFailed == \A a \in DOMAIN pool.failed : ~pool.failed[a]

\* no Mario has completed two frames more than another
Aligned == \A a, b \in DOMAIN pool.done : pool.done[a] - pool.done[b] <= 1

\* C11: whenever the consumer reads the published scores (and no tick has
\* failed), the Marios are within one tick of each other: none has completed
\* tick t+1 while another has not completed tick t.
C11_TickConsistentReads == [][(Consume /\ NobodyFailed) => Aligned]_vars

\* the pairs of worker w's sublist that hold Mario a
Holding(w, a) ==
    { k \in 1..Len(pool.subdivides[w]) : pool.subdivides[w][k].mario = a }

\* C12: once the population is partitioned there is one sublist per worker,
\* every Mario is in exactly one place of exactly one sublist, its slot is
\* its spawn position and is below the population size (so the slots are
\* distinct); no Mario is ticked by two workers and slot i is only ever
\* written for the Mario spawned i-th, whose personality is personalities[i].
C12_StaticPartition ==
    pool.phase = "running" =>
        /\ Len(pool.subdivides) = pool.count
        /\ \A a \in 0..(pool.amount - 1) :
              /\ Cardinality({ w \in 1..pool.count : Holding(w, a) # {} }) = 1
              /\ \A w \in 1..pool.count : Cardinality(Holding(w, a)) <= 1
              /\ Cardinality(pool.by[a]) <= 1
              /\ \A w \in pool.by[a] : Holding(w, a) # {}
              /\ pool.writer[a] \subseteq {a}
        /\ \A w \in 1..pool.count : \A k \in 1..Len(pool.subdivides[w]) :
              /\ pool.subdivides[w][k].slot = pool.subdivides[w][k].mario
              /\ pool.subdivides[w][k].slot < pool.amount
              /\ pool.subdivides[w][k].slot >= 0

C12_Witness ==
    /\ pool.phase = "running"
    /\ pool.amount = MaxTicked
    /\ pool.count = MaxTicked - 1
    /\ pool.subdivides[pool.count] = <<>>
    /\ \A a \in 0..(pool.amount - 1) : pool.done[a] >= 1 /\ pool.writer[a] = {a}
    /\ Cardinality(UNION { pool.by[a] : a \in 0..(pool.amount - 1) }) >= 2

\* Mario a's own tick has failed, or it has completed every tick explored
Settled(a) ==
    IF a < pool.amount THEN pool.failed[a] \/ pool.done[a] = PoolTicks ELSE TRUE

\* C13: under fair scheduling of the workers, every Mario whose own ticks do
\* not fail goes on being ticked (here: completes all the ticks explored),
\* whatever happens to the other Marios.
C13_AgentIndependence ==
    Ticked ~> \A a \in 0..(MaxTicked - 1) : Settled(a)

Completed == obs.kind # "init" /\ panicked = "none"

\* the bytes read from the frontier as the tick left it
FrontierRam == SimRam(world, Last(mario.states))

\* C14, as amended: after each completed tick the value published for the
\* Mario is the screen position of its frontier (world, level, screen page
\* and screen x), whatever the outcome of that state; a tick that completes
\* writes it exactly once and a tick that panics does not write it.
C14_PublishedIsScroll ==
    /\ Completed =>
          /\ scores[0] = FrontierRam.world * 16777216 + FrontierRam.level * 65536
                            + FrontierRam.scroll_page * 256 + FrontierRam.scroll_x
          /\ obs.wrote = 1
    /\ panicked # "none" => obs.wrote = 0

\* C14, as claimed: after each tick the published value is the distance of
\* the Mario's latest Level outcome (of the state the tick scored, or of the
\* frontier it left), kept while the outcome is Dying or Cutscene.
C14_PublishedIsDistance ==
    Completed => scores[0] \in {obs.last_scored, obs.last_front}

C14_Witness ==
    /\ Completed
    /\ Evaluate(world, Last(mario.states)) = Level(2)
    /\ obs.last_front = 2
    /\ scores[0] = 1

\* the checkpoints popped by this tick's revert, if any
Popped == IF obs.reverted THEN Len(obs.rs_before) - obs.landed ELSE 0

\* C15: at a Searching decision point the rollouts change neither the state
\* the search started from nor any checkpoint: the start is the state the
\* Mario held as frontier (or, after a revert, the checkpoint landed on), the
\* checkpoints held before the search are those held after it and after the
\* tick, and the first queued action is applied to that very start state.
C15_RolloutIsolation ==
    (obs.kind = "search" /\ panicked = "none") =>
        /\ Len(obs.pre.states) - Popped >= 1
        /\ obs.start = obs.pre.states[Len(obs.pre.states) - Popped]
        /\ obs.held = SubSeq(obs.pre.states, 1,
                             Len(obs.pre.states) - Popped
                               - (IF obs.reverted THEN 1 ELSE 0))
        /\ obs.kept = obs.held
        /\ PopN(mario.states, 1) = obs.held
        /\ Last(mario.states) = SimStep(world, obs.start, Head(obs.queue))

C15_Witness ==
    /\ obs.kind = "search"
    /\ panicked = "none"
    /\ obs.reverted
    /\ obs.held # <<>>
    /\ \E i \in 1..Len(obs.cands) :
          RunClone(world, obs.start, obs.cands[i]).x # obs.start.x

\* the transition condition on the bytes probed
Transition ==
    \/ probe.ram.engine <= 5
    \/ probe.ram.engine = 7
    \/ probe.ram.mode = 2
    \/ (probe.ram.mode = 1 /\ probe.ram.task # 3)

TimerZero == probe.ram.t100 = 0 /\ probe.ram.t10 = 0 /\ probe.ram.t1 = 0

\* the loss signals: vertical position above 456, or engine/mode at reset
LooksLost ==
    \/ probe.ram.y_hi * 256 + probe.ram.y_lo > 456
    \/ probe.ram.engine \in {6, 11}
    \/ probe.ram.mode \in {0, 3}

\* C16: whenever the transition condition holds fitness returns Cutscene,
\* never Dying, whatever the timer, the vertical position and the engine and
\* mode bytes; Dying(true) is returned exactly when no transition is active
\* and the timer is zero.
C16_TransitionFirst ==
    Classified =>
        /\ Transition => probe.out = Cutscene
        /\ probe.out = Dying(TRUE) <=> (~Transition /\ TimerZero)
        /\ probe.out = Dying(FALSE) <=> (~Transition /\ ~TimerZero /\ LooksLost)

C16_Witness ==
    /\ Classified
    /\ Transition
    /\ TimerZero
    /\ probe.ram.y_hi * 256 + probe.ram.y_lo > 456
    /\ probe.ram.engine = 6
    /\ probe.out = Cutscene

\* the decisions random mode still has to take after this tick
Remaining == IF mario.being_random = None THEN 0 ELSE mario.being_random[1]

C18_StuckRule ==
    (obs.kind = "search" /\ panicked = "none") =>
        /\ obs.pre.stuck_count < mario.personality.patient
        /\ (Stuck(obs.best, obs.score)
               /\ obs.pre.stuck_count + 1 < mario.personality.patient) =>
              /\ mario.stuck_count = obs.pre.stuck_count + 1
              /\ mario.being_random = None
        /\ (Stuck(obs.best, obs.score)
               /\ obs.pre.stuck_count + 1 = mario.personality.patient) =>
              /\ mario.stuck_count = 0
              /\ mario.being_random = Some(mario.personality.random)
        /\ ~Stuck(obs.best, obs.score) =>
              /\ mario.stuck_count = obs.pre.stuck_count
              /\ mario.being_random = None
        /\ \E i \in 1..Len(obs.cands) :
              /\ obs.queue = obs.cands[i]
              /\ obs.outs[i] = obs.best

C18_Witness ==
    /\ obs.kind = "search"
    /\ panicked = "none"
    /\ obs.best = Cutscene
    /\ obs.score = Cutscene
    /\ obs.pre.stuck_count >= 1
    /\ mario.stuck_count = obs.pre.stuck_count

\* greater or equal under the order Failing < Transitional < Progressing
ClaimedGe(a, b) == partial_cmp_cutscene_low(a, b) \in {"Greater", "Equal"}

\* C19, as amended: at a Searching decision the queue holds one of the
\* generated candidates, of exactly `playful` actions, whose outcome is
\* greater than or equal to that of every candidate evaluated, under the
\* order of partial_cmp: Dying < Level (by distance) < Cutscene.
C19_BestCandidate ==
    (Searched /\ panicked = "none") =>
        \E i \in 1..Len(obs.cands) :
            /\ obs.queue = obs.cands[i]
            /\ Len(obs.queue) = mario.personality.playful
            /\ \A j \in 1..Len(obs.cands) :
                  partial_cmp(obs.outs[i], obs.outs[j]) \in {"Greater", "Equal"}

\* C19, as claimed: the same under the order Failing < Transitional <
\* Progressing (by distance).
C19_BestUnderClaimedOrder ==
    (Searched /\ panicked = "none") =>
        \E i \in 1..Len(obs.cands) :
            /\ obs.queue = obs.cands[i]
            /\ Len(obs.queue) = mario.personality.playful
            /\ \A j \in 1..Len(obs.cands) : ClaimedGe(obs.outs[i], obs.outs[j])

C19_Witness ==
    /\ Searched
    /\ panicked = "none"
    /\ obs.best = Cutscene
    /\ \E j \in 1..Len(obs.cands) : obs.outs[j].tag = "Level"
    /\ \E j \in 1..Len(obs.cands) : obs.outs[j].tag = "Cutscene"

\* C20: a tick that starts with a non-empty queue only takes the front of the
\* queue, applies it to the frontier and records it: it appends no
\* checkpoint, reverts nothing, evaluates no rollout and leaves the stuck
\* counter, the random-mode counter, the revert counters and the checkpoints
\* as they were, whatever the outcome of the frontier.
C20_DrainOnly ==
    (obs.kind = "drain" /\ panicked = "none") =>
        /\ obs.pre.inputs_future # <<>>
        /\ mario.inputs_future = Tail(obs.pre.inputs_future)
        /\ mario.inputs_past
              = Append(obs.pre.inputs_past, Head(obs.pre.inputs_future))
        /\ Last(mario.states)
              = SimStep(world, Last(obs.pre.states), Head(obs.pre.inputs_future))
        /\ Len(mario.states) = Len(obs.pre.states)
        /\ PopN(mario.states, 1) = PopN(obs.pre.states, 1)
        /\ mario.revert_stack = obs.pre.revert_stack
        /\ mario.stuck_count = obs.pre.stuck_count
        /\ mario.being_random = obs.pre.being_random
        /\ ~obs.reverted
        /\ obs.cands = <<>>

C20_Witness ==
    /\ obs.kind = "drain"
    /\ panicked = "none"
    /\ obs.decisions >= 1
    /\ obs.score.tag = "Dying"
    /\ Len(mario.states) >= 2

\* the outcome of the frontier the tick started from
EntryScore == Evaluate(world, Last(obs.pre.states))

\* the horizons main draws: rng.gen_range(8..12)
Horizons == 8..11

\* C21: a tick reverts exactly when it is a decision point whose frontier is
\* Dying, and then once: one counter is incremented; the amount requested is 2 for Dying(false) and
\* 7200 / playful for Dying(true), which is more than 2 for the horizons of the
\* model and for those main draws; after the revert the tick works from the
\* newest state left, and the outcome compared in the stuck check is that
\* state's.
C21_RevertTriggerAndDepth ==
    /\ \A h \in Horizons :
          RevertAmount(Dying(TRUE), [playful |-> h])
             > RevertAmount(Dying(FALSE), [playful |-> h])
    /\ obs.kind # "init" =>
          /\ obs.reverted <=> (obs.pre.inputs_future = <<>> /\ EntryScore.tag = "Dying")
          /\ obs.reverted =>
                /\ obs.amount = IF EntryScore = Dying(TRUE)
                                THEN 7200 \div mario.personality.playful ELSE 2
                /\ EntryScore = Dying(TRUE) => obs.amount > 2
          /\ (obs.reverted /\ panicked = "none") =>
                /\ obs.start = obs.pre.states[Len(obs.pre.states) - Popped]
                /\ obs.score = Evaluate(world, obs.start)
                /\ mario.revert_stack
                      = SubSeq(obs.rs_before, 1, obs.landed - 1) \o <<1, 0>>
                /\ obs.kind = "search" =>
                      (Stuck(obs.best, Evaluate(world, obs.start))
                          <=> (obs.run >= 1))

C21_Witness ==
    /\ obs.kind = "search"
    /\ obs.reverted
    /\ panicked = "none"
    /\ obs.amount = 2
    /\ EntryScore = Dying(FALSE)
    /\ obs.start # Last(obs.pre.states)
    /\ obs.run >= 1

\* C22: after every completed tick, reverting or not, the counter stack and
\* the state list have the same length.
C22_OneCounterPerCheckpoint ==
    panicked = "none" => Len(mario.states) = Len(mario.revert_stack)

\* the initial simulator state stepped through the recorded inputs, in order
Replayed == RunClone(world, PowerOn, mario.inputs_past)

\* C23: after every completed tick, reverting or not, the frontier is the
\* initial state stepped through exactly the inputs of inputs_past, so the
\* last recorded input is the one that produced the frontier.
C23_ReplayConsistency ==
    panicked = "none" =>
        /\ Last(mario.states) = Replayed
        /\ mario.inputs_past # <<>> =>
              Last(mario.inputs_past) = Last(Last(mario.states).inputs)

\* C24: every entry of revert_stack is 0 or 1 and, after every completed tick,
\* the newest entry is 0; the entry a revert increments was 0 and becomes 1,
\* and the state landed on leaves the checkpoints, so it is landed on once.
C24_BinaryCounters ==
    /\ \A i \in 1..Len(mario.revert_stack) : mario.revert_stack[i] \in {0, 1}
    /\ panicked = "none" =>
          /\ mario.revert_stack # <<>>
          /\ Last(mario.revert_stack) = 0
    /\ (obs.reverted /\ obs.landed >= 1) =>
          /\ \A i \in 1..Len(obs.rs_before) : obs.rs_before[i] \in {0, 1}
          /\ obs.rs_before[obs.landed] = 0
          /\ panicked = "none" =>
                /\ mario.revert_stack[obs.landed] = 1
                /\ Len(mario.revert_stack) = obs.landed + 1
                /\ \A i \in 1..Len(obs.kept) : obs.kept[i] # obs.start

C24_Witness ==
    /\ obs.reverted
    /\ panicked = "none"
    /\ obs.landed >= 1
    /\ Reached > obs.landed
    /\ obs.rs_before[Reached] = 1
    /\ mario.revert_stack[obs.landed] = 1

\* C25: for the personalities spawned (patient >= 1, random >= 1), in every
\* state stuck_count is below patient; while random mode is armed its counter
\* is between 1 and random and stuck_count is 0; a random decision finds the
\* counter at 1 or more, so the decrement does not go below zero.
C25_ModeBounds ==
    (mario.personality.patient >= 1 /\ mario.personality.random >= 1) =>
        /\ mario.stuck_count >= 0
        /\ mario.stuck_count < mario.personality.patient
        /\ mario.being_random # None =>
              /\ mario.being_random[1] >= 1
              /\ mario.being_random[1] <= mario.personality.random
              /\ mario.stuck_count = 0
        /\ obs.kind = "random" =>
              /\ obs.pre.being_random # None
              /\ obs.pre.being_random[1] - 1 >= 0

C25_Witness ==
    /\ obs.kind = "random"
    /\ panicked = "none"
    /\ mario.personality.random = 2
    /\ mario.personality.patient = 3
    /\ obs.pre.being_random = Some(2)
    /\ mario.being_random = Some(1)
    /\ mario.stuck_count = 0

\* thread t is inside lock() of mutex l
Waits(t, l) == locks.at[t] = "wait" /\ locks.on[t] = l

\* no thread holds two mutexes or waits for one while holding another; no
\* mutex is held by two threads; no thread died holding a mutex
LockSafe ==
    /\ \A t \in Threads :
          /\ Cardinality(locks.holds[t]) <= 1
          /\ locks.at[t] = "wait" => locks.holds[t] = {}
          /\ locks.at[t] = "hold" => locks.holds[t] = {locks.on[t]}
          /\ locks.at[t] \in {"run", "draw", "dead"} => locks.holds[t] = {}
    /\ \A t, u \in Threads : t # u => locks.holds[t] \cap locks.holds[u] = {}
    /\ locks.poisoned = {}

\* a thread that waits can go on, or the holder of the mutex can
NoDeadlock ==
    \A t \in Threads : \A l \in LockNames :
        Waits(t, l) =>
            \/ Free(l)
            \/ \E u \in Threads : l \in locks.holds[u] /\ locks.at[u] = "hold"

\* C26: each of scores, backgrounds and sprites has its own mutex; no thread
\* ever holds two of them or waits for one while holding another, there is
\* no deadlock, and under fair scheduling every thread that waits for a
\* mutex gets it.
C26_LockDiscipline ==
    /\ [](LockSafe /\ NoDeadlock)
    /\ \A t \in Threads : \A l \in LockNames :
          Waits(t, l) ~> (l \in locks.holds[t])

C26_Witness ==
    /\ locks.at[Render] = "hold"
    /\ locks.on[Render] = "scores"
    /\ Waits(1, "scores")
    /\ locks.at[2] = "hold"
    /\ locks.on[2] = "backgrounds"
    /\ \E a \in DOMAIN pool.failed : pool.levels[a] = Pits

\* bits 2 (select) and 3 (start) of an action are clear
NoStartSelect(v) == ~BitSet(v, 4) /\ ~BitSet(v, 8)

\* every action of the sequence after the scripted START has them clear
ClearAfterScript(inputs) ==
    \A k \in (ScriptLead + 2)..Len(inputs) : NoStartSelect(inputs[k])

\* C27: next_input leaves bits 2 and 3 of its argument as they are (it only
\* changes bits 0, 1, 4, 5, 6 and 7); every action generated at a decision
\* point, queued, recorded or applied to the frontier after the scripted
\* queue, reverts included, has bits 2 and 3 clear.
C27_NoStartSelect ==
    /\ Generated =>
          /\ BitSet(probe.next, 4) <=> BitSet(probe.prev, 4)
          /\ BitSet(probe.next, 8) <=> BitSet(probe.prev, 8)
          /\ (probe.next % 16) \div 4 = (probe.prev % 16) \div 4
    /\ probe.kind = "none" =>
          /\ ClearAfterScript(mario.inputs_past)
          /\ \A i \in 1..Len(mario.states) : ClearAfterScript(mario.states[i].inputs)
          /\ obs.kind \in {"random", "search"} =>
                /\ \A k \in 1..Len(obs.queue) : NoStartSelect(obs.queue[k])
                /\ \A i \in 1..Len(obs.cands) : \A k \in 1..Len(obs.cands[i]) :
                      NoStartSelect(obs.cands[i][k])

C27_Witness ==
    /\ probe.kind = "none"
    /\ obs.kind = "search"
    /\ obs.reverted
    /\ panicked = "none"
    /\ Head(obs.queue) # 0
    /\ Last(mario.inputs_past) = Head(obs.queue)
    /\ BitSet(mario.inputs_past[ScriptLead + 1], 8)

====
